---- MODULE Spec2Model ----
(***************************************************************************)
(* Model of the cubob rendering builders (StructShow, ListShow) on top of  *)
(* core::fmt's DebugSet / DebugList, with a sink whose writes may fail.    *)
(*                                                                         *)
(* Text is a sequence of write_str chunks.  One action is one call of a    *)
(* builder method; the chunk of the call that the sink rejects (if any) is *)
(* the action's input failAt.                                              *)
(***************************************************************************)
EXTENDS Integers, Sequences, FiniteSets, TLC

\* ------------------------------------------------------------------ bounds
\* Calls made on one builder after its construction.
MaxCalls == 3
\* Length of the slice / iterator given to a bulk call.
MaxBulk == 2
\* A call may have its 1st .. MaxFailAt-th write rejected by the sink.
MaxFailAt == 1
\* Rows of a table.
MaxRows == 2
\* Table::fmt may have its 1st .. MaxTableFailAt-th write rejected by the sink.
MaxTableFailAt == 8
\* Items of a path-like sequence.
MaxItems == 3
\* PathLike's fmt may have its 1st .. MaxPathFailAt-th write rejected by the sink.
MaxPathFailAt == 4

\* ------------------------------------------------------------------ inputs
Alternate == {"OneLine", "Pretty", "Inherit"}

\* Displayable values: the isize 1, and tests::Integer(2) whose Display
\* differs between the one-line and the pretty form.
Values == {"n", "int"}
None == "None"
\* The (key, value) pairs handed to StructShow.
Fields == {<<"x", "n">>, <<"y", "int">>}
OptFields == Fields \cup {<<"x", None>>}
OptValues == Values \cup {None}

\* Sequences of at most n distinct elements of S: what iterating a slice or a
\* map of distinct entries yields.
RECURSIVE SeqsUpTo(_, _)
SeqsUpTo(S, n) ==
    IF n = 0 THEN {<<>>}
    ELSE LET shorter == SeqsUpTo(S, n - 1)
             longest == {t \in shorter : Len(t) = n - 1}
             Fresh(t) == {e \in S : \A i \in 1 .. Len(t) : t[i] # e}
         IN  shorter \cup UNION {{Append(t, e) : e \in Fresh(t)} : t \in longest}

FieldLists == SeqsUpTo(Fields, MaxBulk)
ValueLists == SeqsUpTo(Values, MaxBulk)
\* 0: the sink accepts every write of the call.
FailPoints == 0 .. MaxFailAt
\* The Alternate an InstantStruct / InstantList carries.
EmbedAlternate == {"OneLine", "Pretty"}

\* ------------------------------------------------------------------ values
\* isize's Display: the same digits in both forms.
isize_fmt(alt) == <<"1">>

\* tests::Integer's Display: write_fmt of three pieces, chosen by f.alternate().
Integer_fmt(alt) ==
    IF alt THEN <<"Integer value '", "2", "'">> ELSE <<"'", "2", "'">>

\* tests::Complex's Display: display_struct over its two Integer fields,
\* on the formatter it is given (defined below, after display_struct).
RECURSIVE Complex_fmt(_)

\* The writes a value's Display::fmt makes on a formatter whose alternate flag is alt.
Display_fmt(v, alt) ==
    IF v = "int" THEN Integer_fmt(alt)
    ELSE IF v = "complex" THEN Complex_fmt(alt)
    ELSE isize_fmt(alt)

\* A key is a &str, written in one piece whatever the flag.
Key_fmt(k) == <<k>>

\* -------------------------------------------------------------------- sink
\* b is the builder together with the formatter it borrows:
\*   out            the text the sink holds
\*   fmt_alt        Formatter::alternate() of the borrowed formatter
\*   result         DebugInner::result ("ok" / "err")
\*   has_fields     DebugInner::has_fields
\*   entrier        the function pointer stored in the builder
\*   inherited_value
\*   nwrites        writes attempted on the sink during the current call
\*   failAt         which of them the sink rejects (0: none)
\*   io             outcome of the last chain of writes
\*   ret            what the call returns ("Self": &mut Self; "ok" / "err": FmtResult;
\*                  "panic": the call did not return)
\*   ev             rows taken from an iterator during the call, each with the
\*                  number of writes attempted on the sink before it

\* Formatter::write_str for each chunk of toks in turn, stopping at the first
\* rejected one (the ? operator).
WriteAll(b, toks) ==
    LET k == b.failAt - b.nwrites
    IN  IF k >= 1 /\ k <= Len(toks)
        THEN [b EXCEPT !.out = b.out \o SubSeq(toks, 1, k - 1),
                       !.nwrites = b.nwrites + k,
                       !.io = "err"]
        ELSE [b EXCEPT !.out = b.out \o toks,
                       !.nwrites = b.nwrites + Len(toks),
                       !.io = "ok"]

EndsWithNewline(t) == t \in {"\n", ",\n"}

\* PadAdapter::write_str over a run of chunks: four spaces are written before
\* a chunk that starts a line.
RECURSIVE PadAdapter_write_str(_, _)
PadAdapter_write_str(toks, on_newline) ==
    IF toks = <<>> THEN <<>>
    ELSE (IF on_newline THEN <<"    ">> ELSE <<>>)
         \o <<Head(toks)>>
         \o PadAdapter_write_str(Tail(toks), EndsWithNewline(Head(toks)))

\* Variant: the entry is written whatever the result of the earlier ones.
DebugInner_entry_unchecked(b, entry) ==
    LET toks == IF b.fmt_alt
                THEN (IF b.has_fields THEN <<>> ELSE <<"\n">>)
                     \o PadAdapter_write_str(entry \o <<",\n">>, TRUE)
                ELSE (IF b.has_fields THEN <<", ">> ELSE <<>>) \o entry
        w == WriteAll(b, toks)
    IN  [w EXCEPT !.result = w.io, !.has_fields = TRUE]

\* DebugInner::entry_with: skipped once result is an error; pretty layout is
\* taken from the formatter's own alternate flag.
DebugInner_entry(b, entry) ==
    IF b.result = "err"
    THEN [b EXCEPT !.has_fields = TRUE]
    ELSE LET toks == IF b.fmt_alt
                     THEN (IF b.has_fields THEN <<>> ELSE <<"\n">>)
                          \o PadAdapter_write_str(entry \o <<",\n">>, TRUE)
                     ELSE (IF b.has_fields THEN <<", ">> ELSE <<>>) \o entry
             w == WriteAll(b, toks)
         IN  [w EXCEPT !.result = w.io, !.has_fields = TRUE]

\* Formatter::debug_set / debug_list: writes the opening delimiter.
DebugInner_new(b, open) ==
    LET w == WriteAll(b, <<open>>)
    IN  [w EXCEPT !.result = w.io, !.has_fields = FALSE]

\* Variant: under a pretty formatter an aggregate without entries is closed
\* on a line of its own.
DebugInner_finish_pretty(b, close) ==
    IF b.result = "err" THEN b
    ELSE LET w == WriteAll(b, IF b.fmt_alt /\ ~b.has_fields
                              THEN <<"\n", close>> ELSE <<close>>)
         IN  [w EXCEPT !.result = w.io]

\* DebugSet::finish / DebugList::finish: writes the closing delimiter unless
\* result is already an error, and returns result.
DebugInner_finish(b, close) ==
    IF b.result = "err" THEN b
    ELSE LET w == WriteAll(b, <<close>>)
         IN  [w EXCEPT !.result = w.io]

\* ------------------------------------------------------------- StructShow
usual_struct_entrier(b, k, v) ==
    DebugInner_entry(b, Key_fmt(k) \o <<": ">> \o Display_fmt(v, FALSE))

\* Variant: the value is formatted with "{}" instead of "{:#}".
alternative_struct_entrier_plain(b, k, v) ==
    DebugInner_entry(b, Key_fmt(k) \o <<": ">> \o Display_fmt(v, FALSE))

alternative_struct_entrier(b, k, v) ==
    DebugInner_entry(b, Key_fmt(k) \o <<": ">> \o Display_fmt(v, TRUE))

null_struct_entrier(b, k, v) == b

struct_inherit_entrier(inherited_value) ==
    IF inherited_value THEN "alternative" ELSE "usual"

\* Variant: Inherit resolved without consulting the formatter's flag.
StructShow_choose_entrier_flagless(alternate, inherited_value) ==
    CASE alternate = "OneLine" -> "usual"
      [] alternate = "Pretty"  -> "alternative"
      [] alternate = "Inherit" -> "usual"

StructShow_choose_entrier(alternate, inherited_value) ==
    CASE alternate = "OneLine" -> "usual"
      [] alternate = "Pretty"  -> "alternative"
      [] alternate = "Inherit" -> struct_inherit_entrier(inherited_value)

\* Call through the function pointer.
StructEntrier(name, b, k, v) ==
    CASE name = "usual"       -> usual_struct_entrier(b, k, v)
      [] name = "alternative" -> alternative_struct_entrier(b, k, v)
      [] name = "null"        -> null_struct_entrier(b, k, v)

StructShow_new(b, alternate) ==
    LET inherited == b.fmt_alt
        entrier == StructShow_choose_entrier(alternate, inherited)
        w == DebugInner_new(b, "{")
    IN  [w EXCEPT !.entrier = entrier, !.inherited_value = inherited]

\* Variant: the one-line entrier is stored whatever the formatter's flag.
StructShow_inherit_usual(b) ==
    LET w == DebugInner_new(b, "{")
    IN  [w EXCEPT !.entrier = "usual", !.inherited_value = b.fmt_alt]

StructShow_inherit(b) ==
    LET inherited == b.fmt_alt
        entrier == struct_inherit_entrier(inherited)
        w == DebugInner_new(b, "{")
    IN  [w EXCEPT !.entrier = entrier, !.inherited_value = inherited]

StructShow_field(b, k, v) == StructEntrier(b.entrier, b, k, v)

\* Variant: no comparison of the stored entrier with null_struct_entrier.
StructShow_field_override_unguarded(b, k, v, alternate) ==
    StructEntrier(StructShow_choose_entrier(alternate, b.inherited_value), b, k, v)

\* Variant: the entrier chosen for the call is kept in the builder.
StructShow_field_override_sticky(b, k, v, alternate) ==
    IF b.entrier # "null"
    THEN LET chosen == StructShow_choose_entrier(alternate, b.inherited_value)
         IN  [StructEntrier(chosen, b, k, v) EXCEPT !.entrier = chosen]
    ELSE b

\* Variant: Inherit is resolved to the entrier the builder holds.
StructShow_field_override_frozen(b, k, v, alternate) ==
    IF b.entrier # "null"
    THEN StructEntrier(IF alternate = "Inherit" THEN b.entrier
                       ELSE StructShow_choose_entrier(alternate, b.inherited_value),
                       b, k, v)
    ELSE b

StructShow_field_override(b, k, v, alternate) ==
    IF b.entrier # "null"
    THEN StructEntrier(StructShow_choose_entrier(alternate, b.inherited_value), b, k, v)
    ELSE b

\* Variant: the Option is not matched, the entry is always emitted.
StructShow_field_opt_always(b, k, val) == StructShow_field(b, k, val)

StructShow_field_opt(b, k, val) ==
    IF val # None THEN StructShow_field(b, k, val) ELSE b

StructShow_field_opt_override(b, k, val, alternate) ==
    IF val # None THEN StructShow_field_override(b, k, val, alternate) ELSE b

\* Variant: the entrier is not replaced by null_struct_entrier.
StructShow_finish_keeps_entrier(b) ==
    LET w == DebugInner_finish(b, "}")
    IN  [w EXCEPT !.ret = w.result]

\* Variant: the wrapper's result is dropped and Ok(()) returned.
StructShow_finish_ok(b) ==
    LET w == DebugInner_finish([b EXCEPT !.entrier = "null"], "}")
    IN  [w EXCEPT !.ret = "ok"]

\* Variant: a finished builder answers Ok(()) without calling the wrapper.
StructShow_finish_once(b) ==
    IF b.entrier = "null" THEN [b EXCEPT !.ret = "ok"]
    ELSE LET w == DebugInner_finish([b EXCEPT !.entrier = "null"], "}")
         IN  [w EXCEPT !.ret = w.result]

StructShow_finish(b) ==
    LET w == DebugInner_finish([b EXCEPT !.entrier = "null"], "}")
    IN  [w EXCEPT !.ret = w.result]

\* Variant: the iterator is consumed from its back.
RECURSIVE StructShow_fields_from_iter_reversed(_, _)
StructShow_fields_from_iter_reversed(b, fields) ==
    IF fields = <<>> THEN b
    ELSE LET last == fields[Len(fields)]
         IN  StructShow_fields_from_iter_reversed(
                 StructEntrier(b.entrier, b, last[1], last[2]),
                 SubSeq(fields, 1, Len(fields) - 1))

RECURSIVE StructShow_fields_from_iter(_, _)
StructShow_fields_from_iter(b, fields) ==
    IF fields = <<>> THEN b
    ELSE StructShow_fields_from_iter(
             StructEntrier(b.entrier, b, Head(fields)[1], Head(fields)[2]),
             Tail(fields))

StructShow_fields(b, fields) == StructShow_fields_from_iter(b, fields)

\* Variant: the accessor reports the form the stored entrier renders in.
StructShow_alternate_resolved(b) == b.entrier = "alternative"

StructShow_alternate(b) == b.inherited_value

\* Variant: the entries are shown with the Alternate the InstantStruct carries.
RECURSIVE InstantStruct_embed_own(_, _)
InstantStruct_embed_own(e, b) ==
    IF e.val = <<>> THEN b
    ELSE InstantStruct_embed_own(
             [e EXCEPT !.val = Tail(e.val)],
             StructShow_field_override(b, Head(e.val)[1], Head(e.val)[2], e.alt))

\* EmbedStruct for InstantStruct: e = [alt, val]; the alt of e is not read.
InstantStruct_embed(e, b) == StructShow_fields_from_iter(b, e.val)

StructShow_embed(b, e) == InstantStruct_embed(e, b)

\* Variant: the builder is made with OneLine instead of Inherit.
display_struct_oneline(b, fields) ==
    StructShow_finish(StructShow_fields(StructShow_new(b, "OneLine"), fields))

display_struct(b, fields) ==
    StructShow_finish(StructShow_fields(StructShow_new(b, "Inherit"), fields))

\* A formatter over an empty sink that accepts every write.
Formatter(alt) ==
    [out |-> <<>>, fmt_alt |-> alt, result |-> "ok", has_fields |-> FALSE,
     entrier |-> "null", inherited_value |-> FALSE,
     nwrites |-> 0, failAt |-> 0, io |-> "ok", ret |-> "Self", ev |-> <<>>]

Complex_fmt(alt) ==
    display_struct(Formatter(alt), <<(<<"r", "int">>), (<<"i", "int">>)>>).out

\* --------------------------------------------------------------- ListShow
usual_list_entrier(b, v) == DebugInner_entry(b, Display_fmt(v, FALSE))

alternative_list_entrier(b, v) == DebugInner_entry(b, Display_fmt(v, TRUE))

null_list_entrier(b, v) == b

list_inherit_entrier(inherited_value) ==
    IF inherited_value THEN "alternative" ELSE "usual"

ListShow_choose_entrier(alternate, inherited_value) ==
    CASE alternate = "OneLine" -> "usual"
      [] alternate = "Pretty"  -> "alternative"
      [] alternate = "Inherit" -> list_inherit_entrier(inherited_value)

ListEntrier(name, b, v) ==
    CASE name = "usual"       -> usual_list_entrier(b, v)
      [] name = "alternative" -> alternative_list_entrier(b, v)
      [] name = "null"        -> null_list_entrier(b, v)

ListShow_new(b, alternate) ==
    LET inherited == b.fmt_alt
        entrier == ListShow_choose_entrier(alternate, inherited)
        w == DebugInner_new(b, "[")
    IN  [w EXCEPT !.entrier = entrier, !.inherited_value = inherited]

ListShow_inherit(b) ==
    LET inherited == b.fmt_alt
        entrier == list_inherit_entrier(inherited)
        w == DebugInner_new(b, "[")
    IN  [w EXCEPT !.entrier = entrier, !.inherited_value = inherited]

ListShow_item(b, v) == ListEntrier(b.entrier, b, v)

\* Variant: no comparison of the stored entrier with null_list_entrier.
ListShow_item_override_unguarded(b, v, alternate) ==
    ListEntrier(ListShow_choose_entrier(alternate, b.inherited_value), b, v)

ListShow_item_override(b, v, alternate) ==
    IF b.entrier # "null"
    THEN ListEntrier(ListShow_choose_entrier(alternate, b.inherited_value), b, v)
    ELSE b

ListShow_item_opt(b, val) ==
    IF val # None THEN ListShow_item(b, val) ELSE b

ListShow_item_opt_override(b, val, alternate) ==
    IF val # None THEN ListShow_item_override(b, val, alternate) ELSE b

ListShow_finish(b) ==
    LET w == DebugInner_finish([b EXCEPT !.entrier = "null"], "]")
    IN  [w EXCEPT !.ret = w.result]

RECURSIVE ListShow_items_from_iter(_, _)
ListShow_items_from_iter(b, items) ==
    IF items = <<>> THEN b
    ELSE ListShow_items_from_iter(ListEntrier(b.entrier, b, Head(items)), Tail(items))

ListShow_items(b, items) == ListShow_items_from_iter(b, items)

ListShow_alternate(b) == b.inherited_value

\* EmbedList for InstantList: e = [alt, val]; the alt of e is not read.
InstantList_embed(e, b) == ListShow_items_from_iter(b, e.val)

ListShow_embed(b, e) == InstantList_embed(e, b)

display_list_from_iter(b, items) ==
    ListShow_finish(ListShow_items_from_iter(ListShow_new(b, "Inherit"), items))

display_list(b, items) == display_list_from_iter(b, items)

\* ------------------------------------------------------------------ state
VARIABLES
    pc,           \* "unbuilt": no builder yet; "built": a builder borrows the formatter;
                  \* "dropped": the builder was a temporary of display_struct / display_list
    kind,         \* "struct" / "list" / "none"
    fmt_alt,      \* Formatter::alternate() of the formatter the caller passes
    out,          \* text in the sink
    show,         \* the builder: wrapper.result, wrapper.has_fields, entrier, inherited_value
    requested,    \* Alternate given to the constructor ("Inherit" for inherit())
    lastOp,       \* the last call: its method and the write the sink rejected (0: none)
    ret,          \* what the last call returned
    calls,        \* calls made after construction
    log,          \* present entries handed to the builder before the first finish()
                  \* and before any write was rejected
    finishes,     \* finish() calls so far
    outAtFinish,  \* sink text right after the first finish()
    failed,       \* some write was rejected by the sink
    subject,      \* the value whose Display::fmt / Params::fmt is called
    sizes,        \* the Vec<usize> sizes_list returned for the table
    attempts,     \* writes attempted on the sink by the last fmt call
    wc,           \* WriteCounter: its usize
    fed,          \* the characters handed to the WriteCounter so far
    events        \* the rows Table::fmt took from its iterators, in order

vars == <<pc, kind, fmt_alt, out, show, requested, lastOp, ret, calls, log,
          finishes, outAtFinish, failed, subject, sizes, attempts, wc, fed,
          events>>

\* The variables of the builders and those of the Display implementations.
builderVars == <<kind, show, requested, log, finishes, outAtFinish>>
displayVars == <<subject, sizes, attempts, wc, fed, events>>

NoSubject == [kind |-> "none"]

NoArg == <<"-", "-">>

\* The last call: its method, the write the sink rejected, and whether a
\* field_override / item_override was given Inherit (an explicit mode shows
\* in the form recorded with the entry).
Op(op, arg, alt, items, failAt) ==
    [op |-> op,
     alt |-> IF op \in {"field_override", "item_override"} /\ alt = "Inherit"
             THEN "Inherit" ELSE "-",
     failAt |-> failAt]

\* The builder and its formatter at the start of a call whose failAt-th write fails.
Load(failAt) ==
    [out |-> out, fmt_alt |-> fmt_alt,
     result |-> show.result, has_fields |-> show.has_fields,
     entrier |-> show.entrier, inherited_value |-> show.inherited_value,
     nwrites |-> 0, failAt |-> failAt, io |-> "ok", ret |-> "Self", ev |-> <<>>]

\* The sink rejects at most one write during the life of a builder.
SinkMayReject(failAt) == failAt = 0 \/ ~failed

\* The rejected write was reached.
Hit(b) == b.failAt >= 1 /\ b.nwrites >= b.failAt

Store(b) ==
    /\ out' = b.out
    /\ show' = [result |-> b.result, has_fields |-> b.has_fields,
                entrier |-> b.entrier, inherited_value |-> b.inherited_value]
    /\ failed' = (failed \/ Hit(b))

Init ==
    /\ pc = "unbuilt"
    /\ kind = "none"
    /\ fmt_alt \in BOOLEAN
    /\ out = <<>>
    /\ show = [result |-> "ok", has_fields |-> FALSE, entrier |-> "null",
               inherited_value |-> FALSE]
    /\ requested = "-"
    /\ lastOp = Op("none", NoArg, "-", <<>>, 0)
    /\ ret = "-"
    /\ calls = 0
    /\ log = <<>>
    /\ finishes = 0
    /\ outAtFinish = <<>>
    /\ failed = FALSE
    /\ subject = NoSubject
    /\ sizes = <<>>
    /\ attempts = 0
    /\ wc = 0
    /\ fed = <<>>
    /\ events = <<>>

\* ----------------------------------------------------------- construction
Construct(k, alternate, op, failAt, b) ==
    /\ pc = "unbuilt"
    /\ Store(b)
    /\ pc' = "built"
    /\ kind' = k
    /\ requested' = alternate
    /\ lastOp' = Op(op, NoArg, alternate, <<>>, IF Hit(b) THEN failAt ELSE 0)
    /\ ret' = b.ret
    /\ UNCHANGED <<fmt_alt, calls, log, finishes, outAtFinish>>
    /\ UNCHANGED displayVars

StructShow_new_call ==
    \E alternate \in Alternate, failAt \in 0 .. 1 :
        Construct("struct", alternate, "new", failAt,
                  StructShow_new(Load(failAt), alternate))

StructShow_inherit_call ==
    \E failAt \in 0 .. 1 :
        Construct("struct", "Inherit", "inherit", failAt,
                  StructShow_inherit(Load(failAt)))

ListShow_new_call ==
    \E alternate \in Alternate, failAt \in 0 .. 1 :
        Construct("list", alternate, "new", failAt,
                  ListShow_new(Load(failAt), alternate))

ListShow_inherit_call ==
    \E failAt \in 0 .. 1 :
        Construct("list", "Inherit", "inherit", failAt,
                  ListShow_inherit(Load(failAt)))

\* ------------------------------------------------------------ method calls
\* A call of an accumulation method: it returns &mut Self.  entries are the
\* present entries the caller handed over, each with the Alternate that
\* governs it.
Accumulate(k, op, arg, alt, items, failAt, b, entries) ==
    /\ pc = "built"
    /\ kind = k
    /\ calls < MaxCalls
    /\ SinkMayReject(failAt)
    /\ Store(b)
    /\ lastOp' = Op(op, arg, alt, items, IF Hit(b) THEN failAt ELSE 0)
    /\ ret' = b.ret
    /\ calls' = calls + 1
    /\ log' = IF finishes = 0 /\ ~failed THEN log \o entries ELSE log
    /\ UNCHANGED <<pc, kind, fmt_alt, requested, finishes, outAtFinish>>
    /\ UNCHANGED displayVars

\* What the caller asks for: the requested Alternate against the flag of the
\* formatter (OneLine: one-line, Pretty: pretty, Inherit: the flag).
Asked(mode) == mode = "Pretty" \/ (mode = "Inherit" /\ fmt_alt)

\* An entry handed to the builder, with the form asked for its value.
Entry(k, v, mode) == [k |-> k, v |-> v, pretty |-> Asked(mode)]

Present(arg, mode) ==
    IF arg[2] = None THEN <<>> ELSE <<Entry(arg[1], arg[2], mode)>>

PairEntries(fields, mode) ==
    [i \in 1 .. Len(fields) |-> Entry(fields[i][1], fields[i][2], mode)]

ValueEntries(items, mode) ==
    [i \in 1 .. Len(items) |-> Entry("-", items[i], mode)]

StructShow_field_call ==
    \E f \in Fields, failAt \in FailPoints :
        Accumulate("struct", "field", f, "-", <<>>, failAt,
                   StructShow_field(Load(failAt), f[1], f[2]),
                   Present(f, requested))

StructShow_field_override_call ==
    \E f \in Fields, alternate \in Alternate, failAt \in FailPoints :
        Accumulate("struct", "field_override", f, alternate, <<>>, failAt,
                   StructShow_field_override(Load(failAt), f[1], f[2], alternate),
                   Present(f, alternate))

StructShow_field_opt_call ==
    \E f \in OptFields, failAt \in FailPoints :
        Accumulate("struct", "field_opt", f, "-", <<>>, failAt,
                   StructShow_field_opt(Load(failAt), f[1], f[2]),
                   Present(f, requested))

StructShow_field_opt_override_call ==
    \E f \in OptFields, alternate \in Alternate, failAt \in FailPoints :
        Accumulate("struct", "field_opt_override", f, alternate, <<>>, failAt,
                   StructShow_field_opt_override(Load(failAt), f[1], f[2], alternate),
                   Present(f, alternate))

StructShow_fields_call ==
    \E fields \in FieldLists, failAt \in FailPoints :
        Accumulate("struct", "fields", NoArg, "-", fields, failAt,
                   StructShow_fields(Load(failAt), fields),
                   PairEntries(fields, requested))

StructShow_fields_from_iter_call ==
    \E fields \in FieldLists, failAt \in FailPoints :
        Accumulate("struct", "fields_from_iter", NoArg, "-", fields, failAt,
                   StructShow_fields_from_iter(Load(failAt), fields),
                   PairEntries(fields, requested))

StructShow_embed_call ==
    \E fields \in FieldLists, alternate \in EmbedAlternate, failAt \in FailPoints :
        Accumulate("struct", "embed", NoArg, alternate, fields, failAt,
                   StructShow_embed(Load(failAt), [alt |-> alternate, val |-> fields]),
                   PairEntries(fields, requested))

ListShow_item_call ==
    \E v \in Values, failAt \in FailPoints :
        Accumulate("list", "item", <<"-", v>>, "-", <<>>, failAt,
                   ListShow_item(Load(failAt), v),
                   Present(<<"-", v>>, requested))

ListShow_item_override_call ==
    \E v \in Values, alternate \in Alternate, failAt \in FailPoints :
        Accumulate("list", "item_override", <<"-", v>>, alternate, <<>>, failAt,
                   ListShow_item_override(Load(failAt), v, alternate),
                   Present(<<"-", v>>, alternate))

ListShow_item_opt_call ==
    \E v \in OptValues, failAt \in FailPoints :
        Accumulate("list", "item_opt", <<"-", v>>, "-", <<>>, failAt,
                   ListShow_item_opt(Load(failAt), v),
                   Present(<<"-", v>>, requested))

ListShow_item_opt_override_call ==
    \E v \in OptValues, alternate \in Alternate, failAt \in FailPoints :
        Accumulate("list", "item_opt_override", <<"-", v>>, alternate, <<>>, failAt,
                   ListShow_item_opt_override(Load(failAt), v, alternate),
                   Present(<<"-", v>>, alternate))

ListShow_items_call ==
    \E items \in ValueLists, failAt \in FailPoints :
        Accumulate("list", "items", NoArg, "-", items, failAt,
                   ListShow_items(Load(failAt), items),
                   ValueEntries(items, requested))

ListShow_items_from_iter_call ==
    \E items \in ValueLists, failAt \in FailPoints :
        Accumulate("list", "items_from_iter", NoArg, "-", items, failAt,
                   ListShow_items_from_iter(Load(failAt), items),
                   ValueEntries(items, requested))

ListShow_embed_call ==
    \E items \in ValueLists, alternate \in EmbedAlternate, failAt \in FailPoints :
        Accumulate("list", "embed", NoArg, alternate, items, failAt,
                   ListShow_embed(Load(failAt), [alt |-> alternate, val |-> items]),
                   ValueEntries(items, requested))

\* finish(): returns the FmtResult of the wrapper's finish.
Finish(k, failAt, b) ==
    /\ pc = "built"
    /\ kind = k
    /\ calls < MaxCalls
    /\ SinkMayReject(failAt)
    /\ Store(b)
    /\ lastOp' = Op("finish", NoArg, "-", <<>>, IF Hit(b) THEN failAt ELSE 0)
    /\ ret' = b.ret
    /\ calls' = calls + 1
    /\ finishes' = finishes + 1
    /\ outAtFinish' = IF finishes = 0 THEN b.out ELSE outAtFinish
    /\ UNCHANGED <<pc, kind, fmt_alt, requested, log>>
    /\ UNCHANGED displayVars

StructShow_finish_call ==
    \E failAt \in 0 .. 1 : Finish("struct", failAt, StructShow_finish(Load(failAt)))

ListShow_finish_call ==
    \E failAt \in 0 .. 1 : Finish("list", failAt, ListShow_finish(Load(failAt)))

\* alternate(): a read of the builder.
Read(k, value) ==
    /\ pc = "built"
    /\ kind = k
    /\ calls < MaxCalls
    /\ lastOp' = Op("alternate", NoArg, "-", <<>>, 0)
    /\ ret' = value
    /\ calls' = calls + 1
    /\ UNCHANGED <<pc, kind, fmt_alt, out, show, requested, log, finishes,
                   outAtFinish, failed>>
    /\ UNCHANGED displayVars

StructShow_alternate_call == Read("struct", StructShow_alternate(Load(0)))

ListShow_alternate_call == Read("list", ListShow_alternate(Load(0)))

\* ---------------------------------------------------- whole-routine calls
\* display_struct / display_list: construct with Inherit, add the slice,
\* finish; the builder is a temporary.
Routine(k, op, items, failAt, b, entries) ==
    /\ pc = "unbuilt"
    /\ Store(b)
    /\ pc' = "dropped"
    /\ kind' = k
    /\ requested' = "Inherit"
    /\ lastOp' = Op(op, NoArg, "-", items, IF Hit(b) THEN failAt ELSE 0)
    /\ ret' = b.ret
    /\ log' = entries
    /\ finishes' = 1
    /\ outAtFinish' = b.out
    /\ UNCHANGED <<fmt_alt, calls>>
    /\ UNCHANGED displayVars

display_struct_call ==
    \E fields \in FieldLists, failAt \in FailPoints :
        Routine("struct", "display_struct", fields, failAt,
                display_struct(Load(failAt), fields), PairEntries(fields, "Inherit"))

display_list_call ==
    \E items \in ValueLists, failAt \in FailPoints :
        Routine("list", "display_list", items, failAt,
                display_list(Load(failAt), items), ValueEntries(items, "Inherit"))

Next ==
    \/ StructShow_new_call
    \/ StructShow_inherit_call
    \/ ListShow_new_call
    \/ ListShow_inherit_call
    \/ StructShow_field_call
    \/ StructShow_field_override_call
    \/ StructShow_field_opt_call
    \/ StructShow_field_opt_override_call
    \/ StructShow_fields_call
    \/ StructShow_fields_from_iter_call
    \/ StructShow_embed_call
    \/ StructShow_finish_call
    \/ StructShow_alternate_call
    \/ ListShow_item_call
    \/ ListShow_item_override_call
    \/ ListShow_item_opt_call
    \/ ListShow_item_opt_override_call
    \/ ListShow_items_call
    \/ ListShow_items_from_iter_call
    \/ ListShow_embed_call
    \/ ListShow_finish_call
    \/ ListShow_alternate_call
    \/ display_struct_call
    \/ display_list_call

Spec == Init /\ [][Next]_vars

\* ================================================ Display implementations
\* A second specification: one value is given to its Display::fmt (or
\* Params::fmt) once, on a formatter whose sink may reject one write.

\* `?`: the rest of the function runs only while no write has been rejected.
Then(b, Rest(_)) == IF b.io = "err" THEN b ELSE Rest(b)

\* ---------------------------------------------- display_struct_from_embed
display_struct_from_embed(b, this, alternate) ==
    StructShow_finish(StructShow_embed(StructShow_new(b, alternate), this))

\* The pairs an InstantStruct holds: a plain value and a nested tests::Complex.
NestedFields == {<<"x", "n">>, <<"g", "complex">>}
EmbedSubjects ==
    [kind : {"InstantStruct"}, alt : EmbedAlternate, alternate : Alternate,
     val : SeqsUpTo(NestedFields, MaxBulk)]

\* ------------------------------------------------------------------ Table
\* In this part a str is a sequence of characters and a write is one str.
\* "E" stands for a character of two bytes in UTF-8 (such as U+00E9); every
\* other character used is ASCII.
len_utf8(c) == IF c = "E" THEN 2 ELSE 1

\* str::len: the length in bytes.
RECURSIVE str_len(_)
str_len(s) == IF s = <<>> THEN 0 ELSE len_utf8(Head(s)) + str_len(Tail(s))

\* str::chars().count()
chars_count(s) == Len(s)

RECURSIVE Flatten(_)
Flatten(chunks) == IF chunks = <<>> THEN <<>> ELSE Head(chunks) \o Flatten(Tail(chunks))

\* Values a Row hands out as &dyn Display.  pieces: the strs its fmt writes;
\* pads: whether its fmt goes through Formatter::pad / pad_integral (i32, &str)
\* or writes its pieces with write! and so ignores the width (tests::Point).
\* some: Some(value) / None as Row::value returns it.
\* pretty: the strs its fmt writes when the formatter's alternate flag is set.
\* fails: its fmt returns Err(fmt::Error) of its own accord.
I32 == [some |-> TRUE, pieces |-> << <<"1", "2", "3", "4">> >>,
        pretty |-> << <<"1", "2", "3", "4">> >>, pads |-> TRUE, fails |-> FALSE]
Str == [some |-> TRUE, pieces |-> << <<"E", "E", "E">> >>,
        pretty |-> << <<"E", "E", "E">> >>, pads |-> TRUE, fails |-> FALSE]
Point == [some |-> TRUE, pieces |-> << <<"(">>, <<"1">>, <<")">> >>,
          pretty |-> << <<"(">>, <<"1">>, <<")">> >>, pads |-> FALSE, fails |-> FALSE]
EmptyStr == [some |-> TRUE, pieces |-> << <<>> >>, pretty |-> << <<>> >>,
             pads |-> TRUE, fails |-> FALSE]
NoValue == [some |-> FALSE, pieces |-> <<>>, pretty |-> <<>>, pads |-> FALSE,
            fails |-> FALSE]
\* tests::Integer(2): '2', and Integer value '2' under the alternate flag.
IntegerCell ==
    [some |-> TRUE, pieces |-> << <<"'">>, <<"2">>, <<"'">> >>,
     pretty |-> << <<"I", "n", "t", "e", "g", "e", "r", " ", "v", "a", "l", "u", "e",
                     " ", "'">>, <<"2">>, <<"'">> >>,
     pads |-> FALSE, fails |-> FALSE]
\* A value whose Display::fmt returns Err without writing.
Broken == [some |-> TRUE, pieces |-> <<>>, pretty |-> <<>>, pads |-> FALSE,
           fails |-> TRUE]
RowValues == {I32, Str, Point}
OptRowValues == RowValues \cup {NoValue}
\* The values of a row of n columns: rows of one column also hold the values
\* whose text depends on the flag or whose fmt fails.
ColumnValues(n) == IF n = 1 THEN OptRowValues \cup {IntegerCell, Broken} ELSE OptRowValues

\* Display::fmt of a value on a formatter whose alternate flag is alt.
Value_fmt(x, alt) == IF alt THEN x.pretty ELSE x.pieces

\* Row::KEYS of the row types.
KeyLists ==
    { <<>>,
      << <<"E", "E", "E">> >>,
      << <<"A">>, <<"i", "d">> >> }

\* ----------------------------------------------------------- WriteCounter
WriteCounter_new == 0

\* Variant: the length of the str in bytes is added.
WriteCounter_write_str_bytes(n, s) == n + str_len(s)

WriteCounter_write_str(n, s) == n + chars_count(s)

WriteCounter_write_char(n, c) == n + 1

WriteCounter_value(n) == n

\* write!(&mut wc, "{v}"): the value writes its pieces into the counter.
RECURSIVE write_counted(_, _)
write_counted(n, pieces) ==
    IF pieces = <<>> THEN n
    ELSE write_counted(WriteCounter_write_str(n, Head(pieces)), Tail(pieces))

\* ------------------------------------------------------------- sizes_list
max_in_place(overall, current) == IF overall < current THEN current ELSE overall

values_iter(row) == row

keys_iter(keys) == keys

\* The closure of sizes_list applied to one Option<&dyn Display>.
value_size(x) ==
    IF ~x.some THEN 0
    ELSE WriteCounter_value(write_counted(WriteCounter_new, Value_fmt(x, FALSE)))

\* write!(&mut wc, "{v}").expect(..): the Err of the value's fmt panics.
value_panics(x) == x.some /\ x.fails

row_panics(keys, row) == \E i \in 1 .. Len(keys) : value_panics(values_iter(row)[i])

sizes_list_panics(keys, rows) == \E r \in 1 .. Len(rows) : row_panics(keys, rows[r])

\* A row taken from an iterator: which one (0: the iterator was exhausted),
\* by which loop, after how many writes attempted on the sink.
Visit(b, e, row) ==
    [b EXCEPT !.ev = Append(@, [e |-> e, row |-> row, at |-> b.nwrites])]

\* The rows `for row in rows` of sizes_list takes, up to a panic.
RECURSIVE sizes_list_for(_, _, _, _)
sizes_list_for(b, keys, rows, i) ==
    IF i > Len(rows) THEN b
    ELSE IF row_panics(keys, rows[i]) THEN Visit(b, "measure", i)
    ELSE sizes_list_for(Visit(b, "measure", i), keys, rows, i + 1)

RECURSIVE sizes_rows(_, _)
sizes_rows(overall_sizes, rows) ==
    IF rows = <<>> THEN overall_sizes
    ELSE sizes_rows(
             [i \in 1 .. Len(overall_sizes) |->
                 max_in_place(overall_sizes[i], value_size(values_iter(Head(rows))[i]))],
             Tail(rows))

sizes_list(keys, rows) ==
    LET overall_sizes == sizes_rows([i \in 1 .. Len(keys) |-> 0], rows)
        keys_sizes == [i \in 1 .. Len(keys) |-> str_len(keys_iter(keys)[i])]
    IN  [i \in 1 .. Len(keys) |-> max_in_place(overall_sizes[i], keys_sizes[i])]

\* --------------------------------------------------------------- emission
\* Formatter::pad / pad_integral with `<` alignment: the text in one write,
\* then one write_char of the fill per missing character.
Formatter_pad(s, width, fill) ==
    <<s>> \o (IF chars_count(s) < width
              THEN [i \in 1 .. (width - chars_count(s)) |-> <<fill>>]
              ELSE <<>>)

Cell_new(value, width) == [value |-> value, width |-> width]

\* Display for Cell: write!(f, "{value:<width$}"), "" standing for no value.
\* Variant: the value is written with the alternate flag set.
Cell_fmt_pretty(cell) ==
    LET value == IF ~cell.value.some THEN EmptyStr ELSE cell.value
    IN  IF value.pads THEN Formatter_pad(Flatten(Value_fmt(value, TRUE)), cell.width, " ")
        ELSE Value_fmt(value, TRUE)

Cell_fmt(cell) ==
    LET value == IF ~cell.value.some THEN EmptyStr ELSE cell.value
    IN  IF value.pads THEN Formatter_pad(Flatten(Value_fmt(value, FALSE)), cell.width, " ")
        ELSE Value_fmt(value, FALSE)

\* A label is a &'static str.
Label(key) ==
    [some |-> TRUE, pieces |-> <<key>>, pretty |-> <<key>>, pads |-> TRUE, fails |-> FALSE]

keys_cells(keys, sz) == [i \in 1 .. Len(keys) |-> Cell_new(Label(keys[i]), sz[i])]

values_cells(row, sz) == [i \in 1 .. Len(row) |-> Cell_new(values_iter(row)[i], sz[i])]

\* Variant: the result of the write of a cell is not looked at.
RECURSIVE row_fmt_unchecked(_, _)
row_fmt_unchecked(b, cells) ==
    IF cells = <<>> THEN [b EXCEPT !.io = "ok"]
    ELSE IF Len(cells) = 1
    THEN WriteAll(b, Cell_fmt(Head(cells)) \o << <<"\n">> >>)
    ELSE row_fmt_unchecked(WriteAll(b, Cell_fmt(Head(cells)) \o << <<" ", "|", " ">> >>),
                           Tail(cells))

RECURSIVE row_fmt(_, _)
row_fmt(b, cells) ==
    IF cells = <<>> THEN [b EXCEPT !.io = "ok"]
    ELSE IF Len(cells) = 1
    THEN WriteAll(b, Cell_fmt(Head(cells)) \o << <<"\n">> >>)
    ELSE Then(WriteAll(b, Cell_fmt(Head(cells)) \o << <<" ", "|", " ">> >>),
              LAMBDA w : row_fmt(w, Tail(cells)))

\* Variant: a line without columns is ended by a newline.
line_fmt_newline(b, sz) ==
    IF sz = <<>> THEN WriteAll(b, << <<"\n">> >>)
    ELSE WriteAll(b, Flatten([i \in 1 .. Len(sz) |->
                         Formatter_pad(<<>>, sz[i], "-")
                         \o (IF i < Len(sz) THEN << <<"-", "+", "-">> >>
                             ELSE << <<"\n">> >>)]))

RECURSIVE line_fmt(_, _)
line_fmt(b, sz) ==
    IF sz = <<>> THEN [b EXCEPT !.io = "ok"]
    ELSE IF Len(sz) = 1
    THEN WriteAll(b, Formatter_pad(<<>>, Head(sz), "-") \o << <<"\n">> >>)
    ELSE Then(WriteAll(b, Formatter_pad(<<>>, Head(sz), "-") \o << <<"-", "+", "-">> >>),
              LAMBDA w : line_fmt(w, Tail(sz)))

\* The while-let loop of Table::fmt and the row after it.
\* rows holds the i-th row of the table and those after it.
RECURSIVE rows_fmt(_, _, _, _)
rows_fmt(b, rows, sz, i) ==
    IF Len(rows) = 1
    THEN row_fmt(Visit(Visit(b, "next", 0), "emit", i), values_cells(Head(rows), sz))
    ELSE Then(row_fmt(Visit(Visit(b, "next", i + 1), "emit", i),
                      values_cells(Head(rows), sz)),
              LAMBDA w : rows_fmt(w, Tail(rows), sz, i + 1))

\* Variant: no early return for a table without rows.
Table_fmt_headed(b, keys, rows) ==
    LET sz == sizes_list(keys, rows)
        w  == Then(WriteAll(b, << <<"\n">> >>), LAMBDA w1 :
              Then(row_fmt(w1, keys_cells(keys, sz)), LAMBDA w2 :
              Then(line_fmt(w2, sz), LAMBDA w3 :
              IF rows = <<>> THEN w3 ELSE rows_fmt(w3, rows, sz, 1))))
    IN  [w EXCEPT !.ret = w.io]

\* Variant: the newline is written before the widths are measured.
Table_fmt_late(b, keys, rows) ==
    IF rows = <<>>
    THEN LET w == WriteAll(Visit(b, "next", 0), << <<"[", "]">> >>)
         IN  [w EXCEPT !.ret = w.io]
    ELSE LET w == Then(WriteAll(Visit(b, "next", 1), << <<"\n">> >>), LAMBDA w0 :
                  LET sz == sizes_list(keys, rows)
                      w1 == sizes_list_for(w0, keys, rows, 1)
                  IN  Then(row_fmt(w1, keys_cells(keys, sz)), LAMBDA w2 :
                      Then(line_fmt(w2, sz), LAMBDA w3 :
                      rows_fmt(w3, rows, sz, 1))))
         IN  [w EXCEPT !.ret = w.io]

\* Display for Table.
Table_fmt(b, keys, rows) ==
    IF rows = <<>>
    THEN LET w == WriteAll(Visit(b, "next", 0), << <<"[", "]">> >>)
         IN  [w EXCEPT !.ret = w.io]
    ELSE LET b1 == sizes_list_for(Visit(b, "next", 1), keys, rows, 1)
         IN  IF sizes_list_panics(keys, rows) THEN [b1 EXCEPT !.ret = "panic"]
             ELSE LET sz == sizes_list(keys, rows)
                      w  == Then(WriteAll(b1, << <<"\n">> >>), LAMBDA w1 :
                            Then(row_fmt(w1, keys_cells(keys, sz)), LAMBDA w2 :
                            Then(line_fmt(w2, sz), LAMBDA w3 :
                            rows_fmt(w3, rows, sz, 1))))
                  IN  [w EXCEPT !.ret = w.io]

\* Rows of n cells, and the tables of at most MaxRows rows over each KEYS.
RowsOf(n) == [1 .. n -> ColumnValues(n)]
RECURSIVE AllSeqsUpTo(_, _)
AllSeqsUpTo(S, n) ==
    IF n = 0 THEN {<<>>}
    ELSE LET shorter == AllSeqsUpTo(S, n - 1)
         IN  shorter \cup {Append(t, e) : t \in {u \in shorter : Len(u) = n - 1}, e \in S}
TableSubjects ==
    UNION {[kind : {"Table"}, keys : {keys}, rows : AllSeqsUpTo(RowsOf(Len(keys)), MaxRows)]
           : keys \in KeyLists}
TableFailPoints == 0 .. MaxTableFailAt

\* ------------------------------------------------------------------ state
\* ------------------------------------------------------------------ Field
\* Variant: the key takes the formatter's flag like the value.
Field_fmt_key_alt(b, key, val) ==
    LET w == WriteAll(b, Display_fmt(key, b.fmt_alt) \o <<": ">>
                         \o Display_fmt(val, b.fmt_alt))
    IN  [w EXCEPT !.ret = w.io]

\* Display for Field: "{}: {:#}" when f.alternate(), "{}: {}" otherwise.
Field_fmt(b, key, val) ==
    LET w == IF b.fmt_alt
             THEN WriteAll(b, Display_fmt(key, FALSE) \o <<": ">> \o Display_fmt(val, TRUE))
             ELSE WriteAll(b, Display_fmt(key, FALSE) \o <<": ">> \o Display_fmt(val, FALSE))
    IN  [w EXCEPT !.ret = w.io]

FieldSubjects == [kind : {"Field"}, key : Values, val : Values \cup {"complex"}]

\* --------------------------------------------------------------- PathLike
\* Display of a delimiter or replacer: NoOutput writes nothing, a char or a
\* &str is written in one piece.
NoOutput_fmt == <<>>
Punct_fmt(d) == IF d = "NoOutput" THEN NoOutput_fmt ELSE <<d>>

\* Variant: the item is written before the delimiter.
output_component_item_first(b, delimiter, item) ==
    WriteAll(b, Display_fmt(item, FALSE) \o Punct_fmt(delimiter))

\* write!(f, "{delimiter}{item}")
output_component(b, delimiter, item) ==
    WriteAll(b, Punct_fmt(delimiter) \o Display_fmt(item, FALSE))

\* The while-let loop of Params::fmt.
RECURSIVE PathLike_rest(_, _, _)
PathLike_rest(b, p, items) ==
    IF items = <<>> THEN [b EXCEPT !.io = "ok"]
    ELSE Then(output_component(b, p.delimiter, Head(items)),
              LAMBDA w : PathLike_rest(w, p, Tail(items)))

\* Params::fmt for PathLike; the first item without prepend is given the
\* caller's formatter itself.
PathLike_fmt(b, p, value) ==
    LET w == IF value = <<>> THEN WriteAll(b, Punct_fmt(p.replacer))
             ELSE Then(IF p.prepend
                       THEN output_component(b, p.delimiter, Head(value))
                       ELSE WriteAll(b, Display_fmt(Head(value), b.fmt_alt)),
                       LAMBDA w1 : PathLike_rest(w1, p, Tail(value)))
    IN  [w EXCEPT !.ret = w.io]

\* Parameterized::fmt: self.params.fmt(self.value, f)
Parameterized_fmt(b, t) ==
    PathLike_fmt(b, [delimiter |-> t.delimiter, replacer |-> t.replacer,
                     prepend |-> t.prepend], t.value)

PathSubjects ==
    [kind : {"PathLike"}, delimiter : {".", "->"}, replacer : {"NoOutput", "."},
     prepend : BOOLEAN, value : AllSeqsUpTo(Values, MaxItems)]
PathFailPoints == 0 .. MaxPathFailAt

\* The strs and chars written into a WriteCounter.
CountedStrs == {<<>>, <<"a">>, <<"a", "E">>, <<"E", "E", "E">>}
CountedChars == {"a", "E"}
CounterSubjects == {[kind |-> "WriteCounter"]}

Subjects ==
    EmbedSubjects \cup TableSubjects \cup CounterSubjects \cup FieldSubjects
    \cup PathSubjects

DisplayInit ==
    /\ pc = "unbuilt"
    /\ kind = "none"
    /\ fmt_alt \in BOOLEAN
    /\ out = <<>>
    /\ show = [result |-> "ok", has_fields |-> FALSE, entrier |-> "null",
               inherited_value |-> FALSE]
    /\ requested = "-"
    /\ lastOp = Op("none", NoArg, "-", <<>>, 0)
    /\ ret = "-"
    /\ calls = 0
    /\ log = <<>>
    /\ finishes = 0
    /\ outAtFinish = <<>>
    /\ failed = FALSE
    /\ subject \in Subjects
    /\ sizes = <<>>
    /\ attempts = 0
    /\ wc = 0
    /\ fed = <<>>
    /\ events = <<>>

\* One call of fmt on the subject: b is the formatter when fmt returns.
Fmt(k, op, failAt, b) ==
    /\ pc = "unbuilt"
    /\ subject.kind = k
    /\ out' = b.out
    /\ ret' = b.ret
    /\ failed' = Hit(b)
    /\ attempts' = b.nwrites
    /\ lastOp' = Op(op, NoArg, "-", <<>>, IF Hit(b) THEN failAt ELSE 0)
    /\ events' = b.ev
    /\ pc' = IF b.ret = "panic" THEN "panicked" ELSE "done"
    /\ UNCHANGED <<fmt_alt, calls, subject, wc, fed>>
    /\ UNCHANGED builderVars

display_struct_from_embed_call ==
    \E failAt \in FailPoints :
        /\ Fmt("InstantStruct", "display_struct_from_embed", failAt,
               display_struct_from_embed(Load(failAt),
                                         [alt |-> subject.alt, val |-> subject.val],
                                         subject.alternate))
        /\ UNCHANGED sizes

Table_fmt_call ==
    \E failAt \in TableFailPoints :
        /\ Fmt("Table", "Table_fmt", failAt,
               Table_fmt(Load(failAt), subject.keys, subject.rows))
        /\ sizes' = IF subject.rows = <<>> \/ sizes_list_panics(subject.keys, subject.rows)
                    THEN <<>>
                    ELSE sizes_list(subject.keys, subject.rows)

\* One call on the WriteCounter made by WriteCounter::new(); n is its new total.
Count(op, n, chars) ==
    /\ pc = "unbuilt"
    /\ subject.kind = "WriteCounter"
    /\ calls < MaxCalls
    /\ wc' = n
    /\ fed' = fed \o chars
    /\ ret' = "ok"
    /\ calls' = calls + 1
    /\ lastOp' = Op(op, NoArg, "-", <<>>, 0)
    /\ UNCHANGED <<pc, fmt_alt, out, failed, subject, sizes, attempts, events>>
    /\ UNCHANGED builderVars

WriteCounter_write_str_call ==
    \E s \in CountedStrs : Count("write_str", WriteCounter_write_str(wc, s), s)

WriteCounter_write_char_call ==
    \E c \in CountedChars : Count("write_char", WriteCounter_write_char(wc, c), <<c>>)

Field_fmt_call ==
    \E failAt \in FailPoints :
        /\ Fmt("Field", "Field_fmt", failAt,
               Field_fmt(Load(failAt), subject.key, subject.val))
        /\ UNCHANGED sizes

Parameterized_fmt_call ==
    \E failAt \in PathFailPoints :
        /\ Fmt("PathLike", "Parameterized_fmt", failAt,
               Parameterized_fmt(Load(failAt), subject))
        /\ UNCHANGED sizes

DisplayNext ==
    \/ display_struct_from_embed_call
    \/ Table_fmt_call
    \/ Field_fmt_call
    \/ Parameterized_fmt_call
    \/ WriteCounter_write_str_call
    \/ WriteCounter_write_char_call

DisplaySpec == DisplayInit /\ [][DisplayNext]_vars

\* ================================================================ claims
AccumulationOps ==
    {"field", "field_override", "field_opt", "field_opt_override", "fields",
     "fields_from_iter", "item", "item_override", "item_opt", "item_opt_override",
     "items", "items_from_iter", "embed"}
OverrideOps == {"field_override", "field_opt_override", "item_override", "item_opt_override"}
OptOps == {"field_opt", "field_opt_override", "item_opt", "item_opt_override"}
BulkOps == {"fields", "fields_from_iter", "items", "items_from_iter", "embed"}
RoutineOps == {"display_struct", "display_list"}

Open(k) == IF k = "struct" THEN "{" ELSE "["
Close(k) == IF k = "struct" THEN "}" ELSE "]"
\* Chunks written by the wrapper and its PadAdapter, not by an entry.
Layout == {"\n", ",\n", "    "}
Framing == Layout \cup {"{", "}", "[", "]", ", "}

Payload(text) == SelectSeq(text, LAMBDA t : t \notin Framing)
IsPrefix(s, t) == Len(s) <= Len(t) /\ s = SubSeq(t, 1, Len(s))
Repeat(t, n) == [i \in 1 .. n |-> t]

\* The text of one entry: "key: value" for a struct, "value" for a list.
EntryText(k, e) ==
    IF k = "struct" THEN <<e.k, ": ">> \o Display_fmt(e.v, e.pretty)
    ELSE Display_fmt(e.v, e.pretty)

RECURSIVE EntriesText(_, _)
EntriesText(k, es) ==
    IF es = <<>> THEN <<>> ELSE EntryText(k, Head(es)) \o EntriesText(k, Tail(es))

RECURSIVE JoinedByComma(_, _)
JoinedByComma(k, es) ==
    IF es = <<>> THEN <<>>
    ELSE EntryText(k, Head(es))
         \o (IF Len(es) > 1 THEN <<", ">> \o JoinedByComma(k, Tail(es)) ELSE <<>>)

RECURSIVE OnePerLine(_, _)
OnePerLine(k, es) ==
    IF es = <<>> THEN <<>>
    ELSE <<"    ">> \o EntryText(k, Head(es)) \o <<",\n">> \o OnePerLine(k, Tail(es))

OneLineText(k, es) == <<Open(k)>> \o JoinedByComma(k, es) \o <<Close(k)>>
PrettyText(k, es) == <<Open(k), "\n">> \o OnePerLine(k, es) \o <<Close(k)>>

\* In a step: the text the call appended and the entries the caller handed over.
Appended == SubSeq(out', Len(out) + 1, Len(out'))
NewEntries == SubSeq(log', Len(log) + 1, Len(log'))
Packed(b) ==
    [result |-> b.result, has_fields |-> b.has_fields, entrier |-> b.entrier,
     inherited_value |-> b.inherited_value]

\* C1: for both builders the entrier held by an unfinished builder is the
\* one-line one for OneLine, the pretty one for Pretty, and for Inherit the
\* pretty one exactly when the formatter's alternate flag is set; the flag is
\* remembered as read, and construction writes nothing but the opening delimiter.
C1_ModeResolved ==
    /\ (pc = "built" /\ finishes = 0) =>
          /\ show.entrier = CASE requested = "OneLine" -> "usual"
                              [] requested = "Pretty"  -> "alternative"
                              [] requested = "Inherit" ->
                                    IF fmt_alt THEN "alternative" ELSE "usual"
          /\ show.inherited_value = fmt_alt
    /\ lastOp.op \in {"new", "inherit"} =>
          /\ out \in {<<>>, <<Open(kind)>>}
          /\ ~show.has_fields

C1_Witness ==
    /\ pc = "built" /\ kind = "list" /\ lastOp.op = "inherit"
    /\ fmt_alt /\ show.entrier = "alternative"

\* C2: once finish() has been called, no accumulation call (single, optional,
\* override, bulk, embed) appends anything to the sink.
C2_SilentAfterFinish ==
    [][(finishes >= 1 /\ lastOp'.op \in AccumulationOps) => out' = out]_vars

C2_Witness ==
    /\ finishes >= 1 /\ lastOp.op \in OverrideOps
    /\ Len(log) >= 1 /\ ~failed /\ show.result = "ok"

\* C3: a builder is Active (its entrier is not the null one) until the first
\* finish(), and Finished in every state after it.
C3_FinishedIsTerminal ==
    /\ (pc = "built" /\ finishes = 0) => show.entrier # "null"
    /\ finishes >= 1 => show.entrier = "null"

C3_Witness ==
    /\ pc = "built" /\ finishes = 1 /\ calls = 3
    /\ lastOp.op \in AccumulationOps \cup {"alternate"}
    /\ show.entrier = "null"

\* C4 as stated: after the first finish() the sink's text stays what it was
\* right after that finish(), a repeated finish() included.
C4_TextFrozenAfterFinish == finishes >= 1 => out = outAtFinish

\* C4 amended: after the first finish() the sink's text is the text it held
\* right after that finish() followed only by closing delimiters, at most one
\* per repeated finish() and exactly one per repeated finish() while no write
\* has been rejected.
C4_OnlyClosersAfterFinish ==
    finishes >= 1 =>
        \E n \in 0 .. (finishes - 1) :
            /\ out = outAtFinish \o Repeat(Close(kind), n)
            /\ ~failed => n = finishes - 1

C4_Witness ==
    /\ finishes = 2 /\ ~failed /\ Len(log) >= 1
    /\ out = outAtFinish \o <<Close(kind)>>

\* C5: an override call leaves the builder's entrier and remembered flag as
\* they were, and every accumulation call on an Active builder appends its
\* entries with the value in the form asked for: the call's own Alternate for
\* an override call, the Alternate given at construction for any other call.
C5_OverrideIsLocal ==
    [][/\ lastOp'.op \in OverrideOps =>
             /\ show'.entrier = show.entrier
             /\ show'.inherited_value = show.inherited_value
       /\ (lastOp'.op \in AccumulationOps /\ finishes = 0 /\ ~failed') =>
             Payload(Appended) = EntriesText(kind, NewEntries)]_vars

C5_Witness ==
    /\ lastOp.op \in {"field", "item"} /\ finishes = 0 /\ ~failed
    /\ Len(log) = 3
    /\ log[1].v = "int" /\ log[2].v = "int" /\ log[3].v = "int"
    /\ log[2].pretty # log[1].pretty /\ log[3].pretty = log[1].pretty

\* C6: an optional call with an absent value changes neither the sink nor the
\* builder; with a present value it leaves the sink and the builder exactly
\* as the corresponding non-optional call does.
C6_OptDelegates ==
    [][(lastOp'.op \in OptOps /\ finishes = 0 /\ ~failed) =>
          IF log' = log
          THEN out' = out /\ show' = show
          ELSE LET e == NewEntries[1]
                   b0 == Load(lastOp'.failAt)
                   Same(b) == out' = b.out /\ show' = Packed(b)
               IN  CASE lastOp'.op = "field_opt" ->
                            Same(StructShow_field(b0, e.k, e.v))
                     [] lastOp'.op = "item_opt" ->
                            Same(ListShow_item(b0, e.v))
                     [] lastOp'.op = "field_opt_override" ->
                            \E a \in Alternate :
                                /\ Asked(a) = e.pretty
                                /\ Same(StructShow_field_override(b0, e.k, e.v, a))
                     [] lastOp'.op = "item_opt_override" ->
                            \E a \in Alternate :
                                /\ Asked(a) = e.pretty
                                /\ Same(ListShow_item_override(b0, e.v, a))]_vars

C6_Witness ==
    /\ lastOp.op = "field_opt" /\ finishes = 0 /\ ~failed
    /\ calls = 2 /\ Len(log) = 1 /\ Len(out) > 1

\* C7: the entries in the sink are the entries handed to the builder, in the
\* order of the calls and, within a bulk call, in iteration order; this holds
\* after every call (nothing waits for finish()), and after a rejected write
\* the sink holds a prefix of them.
C7_EntriesInCallOrder ==
    pc # "unbuilt" =>
        IF failed THEN IsPrefix(Payload(out), EntriesText(kind, log))
        ELSE Payload(out) = EntriesText(kind, log)

C7_Witness ==
    /\ lastOp.op \in BulkOps /\ finishes = 0 /\ ~failed
    /\ Len(log) = 4 /\ log[1] # log[2] /\ log[3] # log[4] /\ log[2] # log[3]

\* C8: an accumulation call returns the builder, never a failure; finish()
\* returns failure when a write made before it was rejected, and when every
\* earlier write was accepted it returns failure exactly when the write of
\* the closing delimiter is rejected.
C8_FailureSurfacesAtFinish ==
    [][/\ lastOp'.op \in AccumulationOps => ret' = "Self"
       /\ lastOp'.op = "finish" =>
             /\ failed => ret' = "err"
             /\ ~failed => (ret' = "err" <=> lastOp'.failAt # 0)
             /\ ret' \in {"ok", "err"}]_vars

C8_Witness ==
    /\ lastOp.op = "finish" /\ ret = "err" /\ lastOp.failAt = 0
    /\ calls = 3 /\ Len(log) >= 2 /\ Len(out) > 1

\* C9 as stated: whatever the formatter's flag, a builder made with OneLine
\* writes no newline and no indentation, and a builder made with Pretty has
\* written, when finished, one entry per line, indented, each followed by ','.
C9_RequestedModeDecidesLayout ==
    /\ requested = "OneLine" => \A i \in 1 .. Len(out) : out[i] \notin Layout
    /\ (requested = "Pretty" /\ finishes >= 1 /\ ~failed /\ Len(log) >= 1) =>
          outAtFinish = PrettyText(kind, log)

Indent == "    "
\* Position of the first chunk t in text (0: absent).
IndexOf(text, t) ==
    IF \E i \in 1 .. Len(text) : text[i] = t
    THEN CHOOSE i \in 1 .. Len(text) : text[i] = t /\ \A j \in 1 .. (i - 1) : text[j] # t
    ELSE 0
\* The text of tests::Complex { r: Integer(2), i: Integer(2) } on one line,
\* and over several lines inside an aggregate whose entries are indented by
\* depth units.
OneLineComplex ==
    <<"{", "r", ": ", "'", "2", "'", ", ", "i", ": ", "'", "2", "'", "}">>
PrettyComplex(depth) ==
    <<"{", "\n">>
    \o Repeat(Indent, depth + 1) \o <<"r", ": ", "Integer value '", "2", "'", ",\n">>
    \o Repeat(Indent, depth + 1) \o <<"i", ": ", "Integer value '", "2", "'", ",\n">>
    \o Repeat(Indent, depth) \o <<"}">>
\* A nested aggregate was rendered whole as the value of entry "g".
NestedRendered ==
    /\ pc = "done" /\ subject.kind = "InstantStruct" /\ ret = "ok"
    /\ \E i \in 1 .. Len(subject.val) : subject.val[i][2] = "complex"

\* C11: an entry rendered in pretty mode has its value rendered in the value's
\* own pretty form: the nested aggregate is multi-line and its entries are
\* indented one unit (four spaces) deeper than the entries of the enclosing
\* aggregate; an entry rendered in one-line mode has the nested aggregate in
\* its one-line form.
C11_NestedPrettyPropagates ==
    NestedRendered =>
        LET g == IndexOf(out, "g")
            depth == IF fmt_alt THEN 1 ELSE 0
            nested == IF Asked(subject.alternate) THEN PrettyComplex(depth)
                      ELSE OneLineComplex
        IN  /\ g > 1
            /\ fmt_alt => out[g - 1] = Indent /\ out[g - 2] # Indent
            /\ ~fmt_alt => out[g - 1] # Indent
            /\ Len(out) >= g + 1 + Len(nested)
            /\ SubSeq(out, g + 2, g + 1 + Len(nested)) = nested

C11_Witness ==
    /\ NestedRendered /\ fmt_alt /\ subject.alternate = "Inherit"
    /\ Len(subject.val) = 2 /\ subject.val[2][2] = "complex"
    /\ \E i \in 1 .. (Len(out) - 2) :
          out[i] = Indent /\ out[i + 1] = Indent /\ out[i + 2] = "r"

\* C12 as stated: alternate() returns the resolved mode, the form in which
\* field() / item() render values, for every requested mode and either flag.
C12_AlternateIsResolvedMode ==
    lastOp.op = "alternate" => ret = Asked(requested)

\* C12 amended: alternate() returns the alternate flag the formatter had when
\* the builder was made, before and after finish(); this is the resolved mode
\* when the requested mode is Inherit.
C12_AlternateIsFormatterFlag ==
    lastOp.op = "alternate" =>
        /\ ret = fmt_alt
        /\ ret = show.inherited_value
        /\ requested = "Inherit" => ret = Asked(requested)

C12_Witness ==
    /\ lastOp.op = "alternate" /\ requested = "Pretty" /\ ~fmt_alt
    /\ ret = FALSE /\ Len(log) >= 1 /\ log[1].pretty

\* C13: inherit(sink) leaves the sink and the builder exactly as
\* new(sink, Inherit) does from the same formatter and sink behaviour, so
\* every later call, finish() and alternate() included, gives the same
\* text and the same results on both.
C13_InheritIsNewInherit ==
    [][lastOp'.op = "inherit" =>
          LET b0 == Load(lastOp'.failAt)
              b  == IF kind' = "struct" THEN StructShow_new(b0, "Inherit")
                    ELSE ListShow_new(b0, "Inherit")
          IN  /\ out' = b.out
              /\ show' = Packed(b)
              /\ ret' = b.ret
              /\ requested' = "Inherit"
              /\ StructShow_alternate(Load(0))' = b.inherited_value]_vars

C13_Witness ==
    /\ pc = "built" /\ kind = "struct" /\ lastOp.op = "inherit"
    /\ fmt_alt /\ show.entrier = "alternative" /\ out = <<"{">> /\ calls = 0

\* ------------------------------------------------------------ table claims
TableDone == pc = "done" /\ subject.kind = "Table"
SetMax(S) == CHOOSE m \in S : \A x \in S : x <= m
\* Characters of the text a value renders to.
RenderedChars(v) == Len(Flatten(v.pieces))
\* s left-justified in w characters.
PadTo(s, w, fill) ==
    s \o (IF Len(s) < w THEN [i \in 1 .. (w - Len(s)) |-> fill] ELSE <<>>)
RECURSIVE Join(_, _)
Join(cells, sep) ==
    IF cells = <<>> THEN <<>>
    ELSE IF Len(cells) = 1 THEN Head(cells)
    ELSE Head(cells) \o sep \o Join(Tail(cells), sep)
HeaderLine(keys, w) ==
    Join([i \in 1 .. Len(keys) |-> PadTo(keys[i], w[i], " ")], <<" ", "|", " ">>) \o <<"\n">>
SeparatorLine(w) ==
    Join([i \in 1 .. Len(w) |-> PadTo(<<>>, w[i], "-")], <<"-", "+", "-">>) \o <<"\n">>
DataLine(row, w) ==
    Join([i \in 1 .. Len(w) |->
             PadTo(IF row[i].some THEN Flatten(row[i].pieces) ELSE <<>>, w[i], " ")],
         <<" ", "|", " ">>) \o <<"\n">>
RECURSIVE DataLines(_, _)
DataLines(rows, w) ==
    IF rows = <<>> THEN <<>> ELSE DataLine(Head(rows), w) \o DataLines(Tail(rows), w)

\* C14: a table without rows renders to exactly "[]" whatever its columns;
\* nothing else is written (and nothing at all when that one write is rejected).
C14_EmptyTable ==
    (TableDone /\ subject.rows = <<>>) =>
        IF ret = "ok" THEN Flatten(out) = <<"[", "]">> /\ Len(out) = 1
        ELSE out = <<>>

C14_Witness ==
    /\ TableDone /\ subject.rows = <<>> /\ Len(subject.keys) = 2
    /\ ret = "ok" /\ Flatten(out) = <<"[", "]">>

\* C15 as stated: for a table with at least one row, width[i] is the maximum
\* of the character count of label i and the character counts of the values
\* present in column i.
C15_WidthIsMaxOfCharCounts ==
    (TableDone /\ subject.rows # <<>>) =>
        /\ Len(sizes) = Len(subject.keys)
        /\ \A i \in 1 .. Len(subject.keys) :
              sizes[i] = SetMax({chars_count(subject.keys[i])}
                                \cup {RenderedChars(subject.rows[r][i]) :
                                        r \in {q \in 1 .. Len(subject.rows) :
                                                 subject.rows[q][i].some}})

\* C16 as stated: a table with rows and columns is a newline, the header
\* line, the separator line and one line per row in row order, every label
\* and every present value left-justified and padded to width[i], every
\* missing value width[i] spaces.
C16_TableLayout ==
    (TableDone /\ subject.rows # <<>> /\ Len(subject.keys) >= 1 /\ ret = "ok") =>
        Flatten(out) = <<"\n">> \o HeaderLine(subject.keys, sizes)
                       \o SeparatorLine(sizes) \o DataLines(subject.rows, sizes)

\* C17: the WriteCounter's total is the number of characters appended by
\* write_str and write_char, never the number of bytes; both calls return
\* Ok; a column holding only a value of three two-byte characters under a
\* one-character label gets width 3.
C17_CountsCharacters ==
    /\ subject.kind = "WriteCounter" =>
          /\ wc = Len(fed)
          /\ calls > 0 => ret = "ok"
    /\ (TableDone /\ subject.rows # <<>>) =>
          \A i \in 1 .. Len(subject.keys) :
              (/\ Len(subject.keys[i]) = 1
               /\ \A r \in 1 .. Len(subject.rows) : subject.rows[r][i] = Str)
              => sizes[i] = 3

C17_Witness ==
    /\ subject.kind = "WriteCounter" /\ lastOp.op = "write_char" /\ calls = 2
    /\ fed = <<"E", "E", "E", "E">> /\ wc = 4 /\ str_len(fed) = 8

\* C18: when the sink rejects a write during Table::fmt, no write is
\* attempted after it, Err is returned, and the sink holds exactly the writes
\* accepted before it; when none is rejected the whole table is written and
\* Ok returned.
C18_TableFailsFast ==
    TableDone =>
        LET full == Table_fmt(Formatter(fmt_alt), subject.keys, subject.rows).out
        IN  IF failed
            THEN /\ ret = "err"
                 /\ attempts = lastOp.failAt
                 /\ out = SubSeq(full, 1, lastOp.failAt - 1)
            ELSE /\ ret = "ok"
                 /\ attempts = Len(full)
                 /\ out = full

C18_Witness ==
    /\ TableDone /\ failed /\ ret = "err" /\ Len(subject.rows) = 2
    /\ Len(subject.keys) = 2 /\ lastOp.failAt = 8 /\ Len(out) = 7

\* --------------------------------------------------- Field, PathLike claims
\* The text of a value in its one-line and in its pretty form, as the tests
\* of the crate expect it.
ExpectedText(v, pretty) ==
    CASE v = "n" -> <<"1">>
      [] v = "int" -> IF pretty THEN <<"Integer value '", "2", "'">> ELSE <<"'", "2", "'">>
      [] v = "complex" -> IF pretty THEN PrettyComplex(0) ELSE OneLineComplex

\* C19: a Field renders as key, ": ", value, the key in its one-line form
\* whatever the formatter's flag and the value in its pretty form exactly
\* when the flag is set.
C19_FieldRendering ==
    (pc = "done" /\ subject.kind = "Field" /\ ret = "ok") =>
        out = ExpectedText(subject.key, FALSE) \o <<": ">>
              \o ExpectedText(subject.val, fmt_alt)

C19_Witness ==
    /\ pc = "done" /\ subject.kind = "Field" /\ ret = "ok" /\ fmt_alt
    /\ subject.key = "int" /\ subject.val = "complex"
    /\ out[1] = "'" /\ out[5] = "{" /\ out[6] = "\n"

\* The whole text of a path-like sequence when no write is rejected.
RECURSIVE DelimitedItems(_, _)
DelimitedItems(d, items) ==
    IF items = <<>> THEN <<>>
    ELSE <<d>> \o ExpectedText(Head(items), FALSE) \o DelimitedItems(d, Tail(items))
PathText ==
    IF subject.value = <<>>
    THEN (IF subject.replacer = "NoOutput" THEN <<>> ELSE <<subject.replacer>>)
    ELSE (IF subject.prepend
          THEN <<subject.delimiter>> \o ExpectedText(Head(subject.value), FALSE)
          ELSE ExpectedText(Head(subject.value), fmt_alt))
         \o DelimitedItems(subject.delimiter, Tail(subject.value))
Delimiters == Cardinality({i \in 1 .. Len(out) : out[i] = subject.delimiter})

\* C20: a path-like sequence without items renders as the replacer alone;
\* with n >= 1 items it renders the items in iteration order, each item after
\* the first preceded by one delimiter and the first preceded by one exactly
\* when prepend is set (n - 1 delimiters, n with prepend); a rejected write
\* ends the output there and Err is returned.
C20_PathLikeRendering ==
    (pc = "done" /\ subject.kind = "PathLike") =>
        IF failed
        THEN /\ ret = "err"
             /\ attempts = lastOp.failAt
             /\ out = SubSeq(PathText, 1, lastOp.failAt - 1)
        ELSE /\ ret = "ok"
             /\ out = PathText
             /\ Len(subject.value) >= 1 =>
                   Delimiters = IF subject.prepend THEN Len(subject.value)
                                ELSE Len(subject.value) - 1

C20_Witness ==
    /\ pc = "done" /\ subject.kind = "PathLike" /\ ret = "ok"
    /\ Len(subject.value) = 3 /\ subject.prepend /\ subject.delimiter = "->"
    /\ subject.value[1] = "int" /\ subject.value[2] = "n" /\ subject.value[3] = "int"
    /\ Delimiters = 3 /\ out[1] = "->"

\* ------------------------------------------------- repeated finish, failure
\* C21: a finish() made after the first one calls the wrapper's finish again
\* and returns its result: Err and nothing written when the wrapper already
\* holds an error or the sink rejects the write, otherwise Ok and one more
\* closing delimiter; no entry handed over earlier is written again.
C21_SecondFinishDelegates ==
    [][(lastOp'.op = "finish" /\ finishes >= 1) =>
          /\ Payload(Appended) = <<>>
          /\ IF show.result = "err" \/ lastOp'.failAt # 0
             THEN out' = out /\ ret' = "err"
             ELSE out' = out \o <<Close(kind)>> /\ ret' = "ok"]_vars

C21_Witness ==
    /\ kind = "list" /\ finishes = 2 /\ lastOp.op = "finish" /\ ret = "ok"
    /\ calls = 3 /\ Len(log) >= 2
    /\ out = outAtFinish \o <<"]">>

\* C22: field_override / item_override on an Active builder writes its entry
\* with the value in the form of the call's own mode, whatever mode the
\* builder was made with: one-line for OneLine, pretty for Pretty, and for
\* Inherit the form of the flag the formatter had at construction.
C22_OverrideResolvesOwnMode ==
    [][(lastOp'.op \in {"field_override", "item_override"} /\ finishes = 0 /\ ~failed') =>
          /\ Len(NewEntries) = 1
          /\ LET e == NewEntries[1]
                 form == IF lastOp'.alt = "Inherit" THEN fmt_alt ELSE e.pretty
                 value == IF e.v = "n" THEN <<"1">>
                          ELSE IF form THEN <<"Integer value '", "2", "'">>
                               ELSE <<"'", "2", "'">>
             IN  Payload(Appended) =
                     (IF kind = "struct" THEN <<e.k, ": ">> ELSE <<>>) \o value]_vars

C22_Witness ==
    /\ kind = "struct" /\ requested = "Pretty" /\ ~fmt_alt
    /\ lastOp.op = "field_override" /\ lastOp.alt = "Inherit"
    /\ finishes = 0 /\ ~failed
    /\ out = <<"{", "y", ": ", "Integer value '", "2", "'", ", ",
               "y", ": ", "'", "2", "'">>

\* C25: once a write has been rejected, no later call writes anything to the
\* sink, the wrapper's error stays, accumulation calls still return the
\* builder and finish() returns Err without writing the closing delimiter.
C25_FailureIsSticky ==
    [][/\ failed' => show'.result = "err"
       /\ failed =>
             /\ out' = out
             /\ failed'
             /\ lastOp'.op \in AccumulationOps => ret' = "Self"
             /\ lastOp'.op = "finish" => ret' = "err"]_vars

C25_Witness ==
    /\ finishes = 0 /\ calls = 2 /\ failed
    /\ lastOp.op \in AccumulationOps /\ lastOp.failAt = 0 /\ ret = "Self"
    /\ Len(log) = 1 /\ out = <<Open(kind)>> /\ show.result = "err"

\* C29: embed() of an InstantStruct / InstantList leaves the builder's
\* entrier and remembered flag as they were; on a Finished builder it changes
\* nothing; on an Active one it appends the entries in iteration order with
\* the values in the form of the builder's entrier, whatever Alternate the
\* embedded value carries.
C29_EmbedUsesHostMode ==
    [][lastOp'.op = "embed" =>
          /\ show'.entrier = show.entrier
          /\ show'.inherited_value = show.inherited_value
          /\ finishes >= 1 => (out' = out /\ show' = show)
          /\ (finishes = 0 /\ ~failed') =>
                LET host == show.entrier = "alternative"
                    es == [i \in 1 .. Len(NewEntries) |->
                              [NewEntries[i] EXCEPT !.pretty = host]]
                IN  Payload(Appended) = EntriesText(kind, es)]_vars

C29_Witness ==
    /\ kind = "struct" /\ requested = "OneLine" /\ calls = 1
    /\ lastOp.op = "embed" /\ finishes = 0 /\ ~failed /\ ~fmt_alt
    /\ Len(log) = 2 /\ log[1].v = "n" /\ log[2].v = "int"
    /\ out = <<"{", "x", ": ", "1", ", ", "y", ": ", "'", "2", "'">>

\* C30: a builder finished without any present entry handed to it has
\* written the opening delimiter and then the closing one and nothing else,
\* no newline and no indentation, whatever the requested mode and the
\* formatter's flag.
C30_EmptyAggregate ==
    (finishes >= 1 /\ log = <<>> /\ ~failed) =>
        outAtFinish = <<Open(kind), Close(kind)>>

C30_Witness ==
    /\ kind = "struct" /\ requested = "Pretty" /\ fmt_alt /\ ~failed
    /\ finishes = 1 /\ calls = 3 /\ lastOp.op = "finish" /\ ret = "ok"
    /\ log = <<>> /\ out = <<"{", "}">>

\* ------------------------------------------------- table passes and lines
EventsOf(e) == SelectSeq(events, LAMBDA x : x.e = e)
RowsIn(es) == [i \in 1 .. Len(es) |-> es[i].row]
UpTo(n) == [i \in 1 .. n |-> i]

\* C23: when Table::fmt returns for a table with rows, the measuring loop has
\* taken every row once, in order, all of them before any write was attempted
\* on the sink; the emitting loop has taken every row once, in order, after
\* the first write (and only the rows before a rejected write when one was
\* rejected); for a table without rows no row is measured or emitted.
C23_MeasureThenRender ==
    TableDone =>
        LET n == Len(subject.rows)
            measured == EventsOf("measure")
            emitted == EventsOf("emit")
        IN  IF n = 0 THEN measured = <<>> /\ emitted = <<>> /\ sizes = <<>>
            ELSE /\ RowsIn(measured) = UpTo(n)
                 /\ \A i \in 1 .. Len(measured) : measured[i].at = 0
                 /\ \A i \in 1 .. Len(emitted) : emitted[i].at >= 1
                 /\ \A i, j \in 1 .. Len(events) :
                        (events[i].e = "measure" /\ events[j].e = "emit") => i < j
                 /\ IF ret = "ok" THEN RowsIn(emitted) = UpTo(n)
                    ELSE \E k \in 0 .. n : RowsIn(emitted) = UpTo(k)

C23_Witness ==
    /\ TableDone /\ ret = "ok" /\ Len(subject.keys) = 2 /\ Len(subject.rows) = 2
    /\ subject.rows[1] # subject.rows[2]
    /\ RowsIn(EventsOf("measure")) = <<1, 2>> /\ RowsIn(EventsOf("emit")) = <<1, 2>>
    /\ Len(out) > 1

\* The text a cell of width w is seen to hold: labels, strs, integers and
\* missing values left-justified in w characters, any other value as its own
\* one-line text.
EmittedCell(v, w) ==
    IF ~v.some THEN PadTo(<<>>, w, " ")
    ELSE IF v.pads THEN PadTo(Flatten(v.pieces), w, " ")
    ELSE Flatten(v.pieces)
\* A line of cells: nothing at all when there is no cell.
EmittedLine(cells, sep) == IF cells = <<>> THEN <<>> ELSE Join(cells, sep) \o <<"\n">>
RECURSIVE EmittedRows(_, _)
EmittedRows(rows, w) ==
    IF rows = <<>> THEN <<>>
    ELSE EmittedLine([i \in 1 .. Len(w) |-> EmittedCell(Head(rows)[i], w[i])],
                     <<" ", "|", " ">>)
         \o EmittedRows(Tail(rows), w)
EmittedTable(keys, rows, w) ==
    <<"\n">>
    \o EmittedLine([i \in 1 .. Len(w) |-> PadTo(keys[i], w[i], " ")], <<" ", "|", " ">>)
    \o EmittedLine([i \in 1 .. Len(w) |-> PadTo(<<>>, w[i], "-")], <<"-", "+", "-">>)
    \o EmittedRows(rows, w)

C26_FailuresReachCaller ==
    (subject.kind = "Table" /\ pc # "unbuilt") =>
        /\ pc = "done"
        /\ ret \in {"ok", "err"}
        /\ (failed \/ \E r \in 1 .. Len(subject.rows) :
                         \E i \in 1 .. Len(subject.keys) : subject.rows[r][i].fails)
           => ret = "err"

RECURSIVE Sum(_)
Sum(ns) == IF ns = <<>> THEN 0 ELSE Head(ns) + Sum(Tail(ns))
\* The lines of a text, each without the newline that ends it.
RECURSIVE LinesOf(_, _)
LinesOf(text, line) ==
    IF text = <<>> THEN (IF line = <<>> THEN <<>> ELSE <<line>>)
    ELSE IF Head(text) = "\n" THEN <<line>> \o LinesOf(Tail(text), <<>>)
    ELSE LinesOf(Tail(text), Append(line, Head(text)))

\* C27 as stated: in a table with rows and columns that was written whole,
\* the header, the separator and every data line have the same number of
\* characters, the sum of the widths plus 3 for each column after the first.
C27_LinesSameLength ==
    (TableDone /\ subject.rows # <<>> /\ Len(subject.keys) >= 1 /\ ret = "ok") =>
        LET text == Flatten(out)
            lines == LinesOf(Tail(text), <<>>)
        IN  /\ Head(text) = "\n"
            /\ Len(lines) = 2 + Len(subject.rows)
            /\ \A l \in 1 .. Len(lines) :
                   Len(lines[l]) = Sum(sizes) + 3 * (Len(subject.keys) - 1)

\* C28: whatever the alternate flag of the formatter given to Table::fmt, the
\* values are measured and written in their one-line form: every present
\* value's width is at least the number of characters written for it, the
\* text is the table of the one-line texts, and it is the text written under
\* the opposite flag.
C28_FlagIndependent ==
    (TableDone /\ subject.rows # <<>> /\ ret = "ok") =>
        /\ \A r \in 1 .. Len(subject.rows) : \A i \in 1 .. Len(subject.keys) :
               subject.rows[r][i].some =>
                   sizes[i] >= Len(Flatten(subject.rows[r][i].pieces))
        /\ Flatten(out) = EmittedTable(subject.keys, subject.rows, sizes)
        /\ out = Table_fmt(Formatter(~fmt_alt), subject.keys, subject.rows).out

C28_Witness ==
    /\ TableDone /\ fmt_alt /\ ret = "ok" /\ Len(subject.rows) = 2
    /\ Len(subject.keys) = 1
    /\ subject.rows[1][1] = IntegerCell /\ subject.rows[2][1] = I32
    /\ sizes = <<6>>
    /\ \E i \in 1 .. Len(out) : out[i] = <<"'">>
    /\ \A i \in 1 .. Len(out) : Len(out[i]) < 15

====
